---- MODULE Spec2Model ----
(***************************************************************************)
(* Model of the NFT generator (src/index.js, configured by config.js):     *)
(* the trait selector, the constraint rules, the uniqueness search of the  *)
(* edition loop in main, and the metadata shuffle that follows it.         *)
(*                                                                         *)
(* Representation.  A trait id "<Layer>:<Value>" is the pair               *)
(* <<Layer, Value>>: traitKey builds it and target.split(":") reads it     *)
(* back.  A DNA string "L1:v1|L2:v2" is the sequence of such pairs, in the  *)
(* order the join writes them.  JavaScript's undefined is Undefined.       *)
(* Math.random() * total is drawn from the grid k / Grain, 0 <= k <        *)
(* Grain * total, and kept multiplied by Grain.                            *)
(***************************************************************************)
EXTENDS Integers, Sequences, FiniteSets, TLC

VARIABLES
    layers,             \* result of readLayers(): the catalog
    incompatible,       \* config.incompatible
    requires,           \* config.requires
    mandatoryLayers,    \* config.mandatoryLayers
    editionSize,        \* config.editionSize
    uniqueDnaTorrance,  \* config.uniqueDnaTorrance
    shuffleMetadata,    \* config.shuffleMetadata
    edition,            \* main: loop variable of the edition loop
    attempts,           \* main: attempts of the current edition
    drawn,              \* pickTraitsForLayers: picked after the per-layer draw
    selection,          \* main: selection of the last attempt
    dna,                \* main: dna of the current edition
    dnaSet,             \* main: the global fingerprint set
    failures,           \* main: the shortfall counter
    allMetadata,        \* main: records of the accepted tokens
    imagePaths,         \* main: image paths of the accepted tokens
    images,             \* disk: output/images, edition number -> composited assets
    metaFiles,          \* disk: output/metadata, token id -> record
    indices,            \* main: the shuffled index array
    aggregate,          \* disk: output/_metadata.json
    dnaLog,             \* disk: output/_logs/dna.txt
    pc,                 \* position of main
    selA, selB,         \* two argument arrays handed to dnaFromSelection
    dnaA, dnaB,         \* the strings it returned for them
    fileName,           \* the file name handed to parseWeight
    parsed,             \* the { name, weight } it returned
    pickElements,       \* the elements handed to weightedPick
    pickR,              \* its draw Math.random() * total
    pickResult          \* the element it returned

vars == <<layers, incompatible, requires, mandatoryLayers, editionSize,
          uniqueDnaTorrance, shuffleMetadata, edition, attempts, drawn,
          selection, dna, dnaSet, failures, allMetadata, imagePaths, images,
          metaFiles, indices, aggregate, dnaLog, pc, selA, selB, dnaA, dnaB,
          fileName, parsed, pickElements, pickR, pickResult>>

configVars == <<layers, incompatible, requires, mandatoryLayers, editionSize,
                uniqueDnaTorrance, shuffleMetadata>>

dnaVars == <<selA, selB, dnaA, dnaB>>

parseVars == <<fileName, parsed>>

pickVars == <<pickElements, pickR, pickResult>>

-----------------------------------------------------------------------------
(* Bounds of the model *)

MaxEdition == 3

MaxNameLen == 4

MaxAttempts == 3

(* the longest layer and the largest weight of the layers weightedPick is  *)
(* applied to on its own                                                  *)
MaxLayerSize == 3

MaxWeight == 3

Grain == 2

(* the edition size of the end-to-end scenario *)
ScenarioEditionSize == 5

(* Program constants *)

DefaultTorrance == 10000

Undefined == <<>>

namePrefix == "Piggos"

description ==
    "A fully generative collection bringing back the classic degen vibes on the mother chain."

baseUri == "ipfs://__REPLACE_WITH_YOUR_CID__"

-----------------------------------------------------------------------------
(* Generic helpers *)

Range(s) == {s[i] : i \in 1..Len(s)}

RECURSIVE SumWeights(_)
SumWeights(elements) ==
    IF elements = <<>> THEN 0
    ELSE Head(elements).weight + SumWeights(Tail(elements))

(* a.layer.localeCompare(b.layer) is LayerRank(a.layer) - LayerRank(b.layer) *)
(* on the layer names of the model, listed here in alphabetical order        *)
LayerNames == <<"Background", "Base", "Eye", "Mouth">>

LayerRank(name) == CHOOSE i \in 1..Len(LayerNames) : LayerNames[i] = name

-----------------------------------------------------------------------------
(* Layer catalog *)

traitKey(layerName, valueName) == <<layerName, valueName>>

Element(layer, name, weight) ==
    [id |-> traitKey(layer, name), layer |-> layer, name |-> name,
     weight |-> weight, path |-> <<layer, name, weight>>]

Layer(id, elements) == [id |-> id, elements |-> elements]

(* A file name is the sequence of its characters, with the extension      *)
(* ".png" as its last member; path.parse(filename).name drops it.          *)
rarityDelimiter == "#"

Digits == <<"0", "1", "2", "3", "4", "5", "6", "7", "8", "9">>

IsDigit(c) == \E d \in 1..Len(Digits) : Digits[d] = c

DigitValue(c) == (CHOOSE d \in 1..Len(Digits) : Digits[d] = c) - 1

RECURSIVE DecimalValue(_)
DecimalValue(text) ==
    IF text = <<>> THEN 0
    ELSE 10 * DecimalValue(SubSeq(text, 1, Len(text) - 1)) + DigitValue(text[Len(text)])

AllDigits(text) == text # <<>> /\ \A i \in 1..Len(text) : IsDigit(text[i])

(* Number(text) on the characters of the model: [nan, value] *)
Number(text) ==
    IF text = <<>> THEN [nan |-> FALSE, value |-> 0]
    ELSE IF AllDigits(text) THEN [nan |-> FALSE, value |-> DecimalValue(text)]
    ELSE IF text[1] = "-" /\ AllDigits(Tail(text))
    THEN [nan |-> FALSE, value |-> 0 - DecimalValue(Tail(text))]
    ELSE [nan |-> TRUE, value |-> 0]

(* String.prototype.lastIndexOf, 1-based, 0 for -1 *)
lastIndexOf(text, c) ==
    IF \E i \in 1..Len(text) : text[i] = c
    THEN CHOOSE i \in 1..Len(text) : text[i] = c /\ \A j \in (i + 1)..Len(text) : text[j] # c
    ELSE 0

parseWeight(filename) ==
    LET base == SubSeq(filename, 1, Len(filename) - 1)
        idx == lastIndexOf(base, rarityDelimiter)
        n == Number(SubSeq(base, idx + 1, Len(base)))
    IN  IF idx = 0 THEN [name |-> base, weight |-> 1]
        ELSE [name |-> SubSeq(base, 1, idx - 1),
              weight |-> IF n.nan \/ n.value = 0 THEN 1 ELSE n.value]

(* the pick that triggers only once the remainder is below zero *)
weightedPick_Strict(elements, r) ==
    LET total == SumWeights(elements)
        Remainder(i) == r - Grain * SumWeights(SubSeq(elements, 1, i))
        hits == {i \in 1..Len(elements) : Remainder(i) < 0}
    IN  IF hits # {}
        THEN elements[CHOOSE i \in hits : \A j \in hits : i <= j]
        ELSE elements[Len(elements)]

weightedPick(elements, r) ==
    LET total == SumWeights(elements)
        Remainder(i) == r - Grain * SumWeights(SubSeq(elements, 1, i))
        hits == {i \in 1..Len(elements) : Remainder(i) <= 0}
    IN  IF hits # {}
        THEN elements[CHOOSE i \in hits : \A j \in hits : i <= j]
        ELSE elements[Len(elements)]

(* the values Math.random() * total can take, one draw per layer *)
RandomDraws(ls) ==
    LET limit(i) == Grain * SumWeights(ls[i].elements)
        top == CHOOSE m \in {limit(i) : i \in 1..Len(ls)} :
                   \A i \in 1..Len(ls) : limit(i) <= m
    IN  {r \in [1..Len(ls) -> 0..(top - 1)] : \A i \in 1..Len(ls) : r[i] < limit(i)}

-----------------------------------------------------------------------------
(* Array.prototype.sort with a comparator (a, b) => key(a) - key(b), where *)
(* keys[i] is the key of s[i]: the sort is stable, so an entry goes after  *)
(* the entries with a smaller key and the earlier entries with an equal    *)
(* key                                                                     *)
StableSort(s, keys) ==
    LET n == Len(s)
        pos(i) == 1 + Cardinality({j \in 1..n :
                        \/ keys[j] < keys[i]
                        \/ keys[j] = keys[i] /\ j < i})
    IN  [p \in 1..n |-> s[CHOOSE i \in 1..n : pos(i) = p]]

(* Array.prototype.findIndex, where tests[i] is the predicate at s[i]:     *)
(* 1-based, 0 for -1                                                       *)
FindIndex(tests) ==
    IF \E i \in 1..Len(tests) : tests[i]
    THEN CHOOSE i \in 1..Len(tests) : tests[i] /\ \A j \in 1..(i - 1) : ~tests[j]
    ELSE 0

(* { ...el, _order: order } *)
WithOrder(el, order) ==
    [id |-> el.id, layer |-> el.layer, name |-> el.name, weight |-> el.weight,
     path |-> el.path, _order |-> order]

(* the insertion-ordered Set of the trait keys of a selection *)
Chosen(sel) ==
    LET key(i) == traitKey(sel[i].layer, sel[i].name)
        first == {i \in 1..Len(sel) : \A j \in 1..(i - 1) : key(j) # key(i)}
        Nth(p) == CHOOSE i \in first : Cardinality({j \in first : j < i}) = p - 1
    IN  [p \in 1..Cardinality(first) |-> key(Nth(p))]

-----------------------------------------------------------------------------
(* Constraint rules *)

violatesIncompatibilitiesIn(table, sel) ==
    LET chosen == Range(Chosen(sel))
    IN  \E k \in chosen :
            /\ k \in DOMAIN table
            /\ \E i \in 1..Len(table[k]) : table[k][i] \in chosen

violatesIncompatibilities(sel) == violatesIncompatibilitiesIn(incompatible, sel)

(* a Map whose set keeps the first value written for a key *)
MapSet_FirstWins(m, key, value) ==
    IF \E i \in 1..Len(m) : m[i][1] = key THEN m
    ELSE Append(m, <<key, value>>)

(* Map.prototype.set on a Map kept as the sequence of its entries *)
MapSet(m, key, value) ==
    LET idx == FindIndex([i \in 1..Len(m) |-> m[i][1] = key])
    IN  IF idx > 0 THEN [m EXCEPT ![idx] = <<key, value>>]
        ELSE Append(m, <<key, value>>)

RECURSIVE SetAll(_, _)
SetAll(m, targets) ==
    IF targets = <<>> THEN m
    ELSE SetAll(MapSet(m, Head(targets)[1], Head(targets)[2]), Tail(targets))

RECURSIVE CollectRequirements(_, _, _)
CollectRequirements(table, chosen, mustAdd) ==
    IF chosen = <<>> THEN mustAdd
    ELSE LET k == Head(chosen)
             next == IF k \in DOMAIN table THEN SetAll(mustAdd, table[k])
                     ELSE mustAdd
         IN  CollectRequirements(table, Tail(chosen), next)

(* the overrides collected with the chosen traits taken last to first *)
enforceRequirementsIn_Reversed(table, sel) ==
    LET chosen == Chosen(sel)
    IN  CollectRequirements(table,
            [i \in 1..Len(chosen) |-> chosen[Len(chosen) + 1 - i]], <<>>)

enforceRequirementsIn(table, sel) == CollectRequirements(table, Chosen(sel), <<>>)

enforceRequirements(sel) == enforceRequirementsIn(requires, sel)

(* the fingerprint without the sort by layer *)
dnaFromSelection_NoSort(sel) ==
    [i \in 1..Len(sel) |-> <<sel[i].layer, sel[i].name>>]

dnaFromSelection(sel) ==
    LET sorted == StableSort(sel, [i \in 1..Len(sel) |-> LayerRank(sel[i].layer)])
    IN  [i \in 1..Len(sorted) |-> <<sorted[i].layer, sorted[i].name>>]

-----------------------------------------------------------------------------
(* Trait selector *)

(* lines 172-177: one weighted pick per layer, in layer order *)
drawPicks(ls, rand) ==
    [i \in 1..Len(ls) |-> WithOrder(weightedPick(ls[i].elements, rand[i]), i - 1)]

(* the default taken as the first element of the layer *)
highestWeight_First(elements) == elements[1]

(* line 186-187: the highest weight element of a layer *)
highestWeight(elements) ==
    StableSort(elements, [i \in 1..Len(elements) |-> 0 - elements[i].weight])[1]

(* lines 180-191: state is [picked, order] *)
RECURSIVE enforceMandatory(_, _, _)
enforceMandatory(ls, mandatory, st) ==
    IF mandatory = <<>> THEN st
    ELSE LET m == Head(mandatory)
             li == FindIndex([i \in 1..Len(ls) |-> ls[i].id = m])
             next ==
                 IF FindIndex([i \in 1..Len(st.picked) |-> st.picked[i].layer = m]) = 0 /\ li > 0
                 THEN [picked |-> Append(st.picked,
                                     WithOrder(highestWeight(ls[li].elements), st.order)),
                       order |-> st.order + 1]
                 ELSE st
         IN  enforceMandatory(ls, Tail(mandatory), next)

(* one entry of mustAdd, with an in-place override that moves the entry to *)
(* the end of render order                                                 *)
applyRequirement_Reorders(ls, st, layerName, valueName) ==
    LET idx == FindIndex([i \in 1..Len(st.picked) |-> st.picked[i].layer = layerName])
        li == FindIndex([i \in 1..Len(ls) |-> ls[i].id = layerName])
        fi == IF li > 0
              THEN FindIndex([i \in 1..Len(ls[li].elements) |->
                                ls[li].elements[i].name = valueName])
              ELSE 0
    IN  IF idx > 0
        THEN [picked |-> [st.picked EXCEPT ![idx].name = valueName,
                                           ![idx].id = traitKey(layerName, valueName),
                                           ![idx]._order = st.order],
              order |-> st.order + 1]
        ELSE IF li > 0 /\ fi > 0
        THEN [picked |-> Append(st.picked, WithOrder(ls[li].elements[fi], st.order)),
              order |-> st.order + 1]
        ELSE st

(* lines 196-212: one entry of mustAdd *)
applyRequirement(ls, st, layerName, valueName) ==
    LET idx == FindIndex([i \in 1..Len(st.picked) |-> st.picked[i].layer = layerName])
        li == FindIndex([i \in 1..Len(ls) |-> ls[i].id = layerName])
        fi == IF li > 0
              THEN FindIndex([i \in 1..Len(ls[li].elements) |->
                                ls[li].elements[i].name = valueName])
              ELSE 0
    IN  IF idx > 0
        THEN [st EXCEPT !.picked[idx].name = valueName,
                        !.picked[idx].id = traitKey(layerName, valueName)]
        ELSE IF li > 0 /\ fi > 0
        THEN [picked |-> Append(st.picked, WithOrder(ls[li].elements[fi], st.order)),
              order |-> st.order + 1]
        ELSE st

RECURSIVE applyRequirements(_, _, _)
applyRequirements(ls, st, mustAdd) ==
    IF mustAdd = <<>> THEN st
    ELSE applyRequirements(ls,
             applyRequirement(ls, st, Head(mustAdd)[1], Head(mustAdd)[2]),
             Tail(mustAdd))

(* lines 179-215 for given rule tables: pickTraitsForLayers once the       *)
(* per-layer draw of lines 172-177 has filled picked                       *)
pickTraitsForLayersIn(ls, mandatory, table, picked) ==
    LET st == enforceMandatory(ls, mandatory, [picked |-> picked, order |-> Len(ls)])
    IN  applyRequirements(ls, st, enforceRequirementsIn(table, st.picked)).picked

pickTraitsForLayers(ls, picked) ==
    pickTraitsForLayersIn(ls, mandatoryLayers, requires, picked)

-----------------------------------------------------------------------------
(* Metadata and shuffle *)

imageUri(tokenId) == <<baseUri, tokenId>>

tokenName(tokenId) == <<namePrefix, tokenId>>

imagePath(tokenId) == <<"images", tokenId>>

metadataForToken(tokenId, sel, uri) ==
    LET sorted == StableSort(sel, [i \in 1..Len(sel) |-> sel[i]._order])
    IN  [name |-> tokenName(tokenId),
         description |-> description,
         image |-> uri,
         edition |-> tokenId,
         attributes |-> [i \in 1..Len(sorted) |->
                            [trait_type |-> sorted[i].layer, value |-> sorted[i].name]]]

(* composeImage: the asset paths composited, bottom first *)
composeImage(sel) ==
    LET ordered == StableSort(sel, [i \in 1..Len(sel) |-> sel[i]._order])
    IN  [i \in 1..Len(ordered) |-> ordered[i].path]

(* the swap that overwrites array[i] and leaves array[j] *)
Swap_Overwrite(array, i, j) == [array EXCEPT ![i] = array[j]]

(* line 227 *)
Swap(array, i, j) == [array EXCEPT ![i] = array[j], ![j] = array[i]]

(* the values Math.floor(Math.random() * (i + 1)) can take at each i *)
ShuffleDraws(n) == {js \in [2..n -> 1..n] : \A i \in 2..n : js[i] <= i}

RECURSIVE shuffleFrom(_, _, _)
shuffleFrom(array, i, js) ==
    IF i < 2 THEN array
    ELSE shuffleFrom(Swap(array, i, js[i]), i - 1, js)

shuffle(array, js) == shuffleFrom(array, Len(array), js)

rewrittenMetadata(all, idx) ==
    [newId \in 1..Len(all) |->
        [all[idx[newId]] EXCEPT !.name = tokenName(newId),
                                !.edition = newId,
                                !.image = imageUri(newId)]]

-----------------------------------------------------------------------------
(* Configurations *)

Catalog1 ==
    << Layer("Mouth", <<Element("Mouth", "Smile", 1), Element("Mouth", "Fangs", 1)>>),
       Layer("Base", <<Element("Base", "Human", 2), Element("Base", "Alien", 1)>>),
       Layer("Eye", <<Element("Eye", "Laser", 1)>>) >>

Catalog2 ==
    << Layer("Background", <<Element("Background", "Blue", 1),
                             Element("Background", "Red", 9)>>),
       Layer("Base", <<Element("Base", "Human", 1)>>) >>

Catalogs == {Catalog1, Catalog2}

(* the picked arrays the per-layer draw of a catalog can produce *)
PickOutcomes ==
    [c \in Catalogs |-> {drawPicks(c, rand) : rand \in RandomDraws(c)}]

NoRules == [k \in {} |-> <<>>]

Incompat1 ==
    (<<"Base", "Alien">> :> << <<"Mouth", "Smile">> >>)
    @@ (<<"Clothes", "Armor">> :> << <<"Mouth", "Smile">> >>)

Requires1 == (<<"Base", "Alien">> :> << <<"Mouth", "Fangs">> >>)

Requires2 ==
    (<<"Base", "Alien">> :> << <<"Mouth", "Fangs">> >>)
    @@ (<<"Eye", "Laser">> :> << <<"Mouth", "Smile">> >>)

Requires3 ==
    (<<"Base", "Alien">> :> << <<"Mouth", "Grin">> >>)
    @@ (<<"Base", "Human">> :> << <<"Head", "Crown">> >>)

Requires4 ==
    (<<"Base", "Alien">> :> << <<"Mouth", "Fangs">> >>)
    @@ (<<"Mouth", "Fangs">> :> << <<"Base", "Human">> >>)

Requires5 ==
    (<<"Base", "Alien">> :> << <<"Mouth", "Smile">>, <<"Mouth", "Fangs">> >>)

DefaultMandatory == <<"Background", "Base">>

Configs ==
    {[layers |-> Catalog1, incompatible |-> i, requires |-> r,
      mandatoryLayers |-> DefaultMandatory] :
        i \in {NoRules, Incompat1},
        r \in {NoRules, Requires1, Requires2, Requires3, Requires4, Requires5}}
    \cup {[layers |-> c, incompatible |-> NoRules, requires |-> NoRules,
           mandatoryLayers |-> m] :
             c \in Catalogs, m \in {DefaultMandatory, <<"Mouth", "Base">>}}

(* lines 280-284 for every configuration and every outcome of the draws:  *)
(* the selection, whether the rule check rejects it, and its fingerprint  *)
AttemptOutcomes ==
    [c \in Configs |->
        {[drawn |-> picked,
          selection |-> sel,
          rejected |-> violatesIncompatibilitiesIn(c.incompatible, sel),
          dna |-> dnaFromSelection(sel)] :
            <<picked, sel>> \in
                {<<p, pickTraitsForLayersIn(c.layers, c.mandatoryLayers, c.requires, p)>> :
                    p \in PickOutcomes[c.layers]}}]

(* the configuration of the run, as destructured at lines 7-26 *)
config ==
    [layers |-> layers, incompatible |-> incompatible, requires |-> requires,
     mandatoryLayers |-> mandatoryLayers]

-----------------------------------------------------------------------------
(* The run of main *)

NoFiles == [k \in {} |-> <<>>]

afterSlot(e) ==
    IF e <= editionSize THEN "loop"
    ELSE IF shuffleMetadata THEN "shuffle" ELSE "aggregate"

InitRun ==
    /\ edition = 1
    /\ attempts = 0
    /\ drawn = <<>>
    /\ selection = Undefined
    /\ dna = Undefined
    /\ dnaSet = {}
    /\ failures = 0
    /\ allMetadata = <<>>
    /\ imagePaths = <<>>
    /\ images = NoFiles
    /\ metaFiles = NoFiles
    /\ indices = <<>>
    /\ aggregate = <<>>
    /\ dnaLog = {}
    /\ pc = "loop"
    /\ selA = <<>> /\ selB = <<>> /\ dnaA = Undefined /\ dnaB = Undefined
    /\ fileName = <<>> /\ parsed = Undefined
    /\ pickElements = <<>> /\ pickR = 0 /\ pickResult = Undefined

Init ==
    /\ \E c \in Configs :
        /\ layers = c.layers
        /\ incompatible = c.incompatible
        /\ requires = c.requires
        /\ mandatoryLayers = c.mandatoryLayers
    /\ editionSize \in 1..MaxEdition
    /\ uniqueDnaTorrance \in 1..MaxAttempts
    /\ shuffleMetadata \in BOOLEAN
    /\ InitRun

(* the loop condition without the duplicate test *)
keepSearching_NoDupCheck(d, n) == FALSE

(* line 285: the condition of the do-while loop *)
keepSearching(d, n) == d \in dnaSet /\ n < uniqueDnaTorrance

(* the ceiling test that never reports exhaustion *)
exhausted_Never(n) == FALSE

(* line 287 *)
exhausted(n) == n >= uniqueDnaTorrance

(* one iteration that counts only the draws that passed the rule check *)
Attempt_CountsCompatibleOnly ==
    /\ pc = "loop"
    /\ \E o \in AttemptOutcomes[config] :
       \E newDna \in {IF o.rejected THEN dna ELSE o.dna} :
       \E n \in {IF o.rejected THEN attempts ELSE attempts + 1} :
            /\ drawn' = o.drawn
            /\ selection' = o.selection
            /\ attempts' = n
            /\ dna' = newDna
            /\ pc' = IF keepSearching(newDna, n) THEN "loop" ELSE "after"
    /\ UNCHANGED <<configVars, dnaVars, parseVars, pickVars,
                   edition, dnaSet, failures, allMetadata,
                   imagePaths, images, metaFiles, indices, aggregate, dnaLog>>

(* lines 279-285: one iteration of the do-while loop *)
Attempt ==
    /\ pc = "loop"
    /\ \E o \in AttemptOutcomes[config] :
       \E newDna \in {IF o.rejected THEN dna ELSE o.dna} :
            /\ drawn' = o.drawn
            /\ selection' = o.selection
            /\ attempts' = attempts + 1
            /\ dna' = newDna
            /\ pc' = IF keepSearching(newDna, attempts + 1) THEN "loop" ELSE "after"
    /\ UNCHANGED <<configVars, dnaVars, parseVars, pickVars,
                   edition, dnaSet, failures, allMetadata,
                   imagePaths, images, metaFiles, indices, aggregate, dnaLog>>

(* the failure branch, had it recorded the fingerprint before giving up *)
Fail_RecordsDna ==
    /\ pc = "after"
    /\ exhausted(attempts)
    /\ failures' = failures + 1
    /\ dnaSet' = dnaSet \cup {dna}
    /\ edition' = edition + 1
    /\ attempts' = 0
    /\ drawn' = <<>>
    /\ selection' = Undefined
    /\ dna' = Undefined
    /\ pc' = afterSlot(edition + 1)
    /\ UNCHANGED <<configVars, dnaVars, parseVars, pickVars,
                   allMetadata, imagePaths, images,
                   metaFiles, indices, aggregate, dnaLog>>

(* lines 287-291, and the loop header of the next slot *)
Fail ==
    /\ pc = "after"
    /\ exhausted(attempts)
    /\ failures' = failures + 1
    /\ edition' = edition + 1
    /\ attempts' = 0
    /\ drawn' = <<>>
    /\ selection' = Undefined
    /\ dna' = Undefined
    /\ pc' = afterSlot(edition + 1)
    /\ UNCHANGED <<configVars, dnaVars, parseVars, pickVars,
                   dnaSet, allMetadata, imagePaths, images,
                   metaFiles, indices, aggregate, dnaLog>>

(* the accept branch numbering the token by the count of accepted tokens *)
Accept_Backfill ==
    /\ pc = "after"
    /\ ~exhausted(attempts)
    /\ dnaSet' = dnaSet \cup {dna}
    /\ LET id == Len(allMetadata) + 1
           meta == metadataForToken(id, selection, imageUri(id))
       IN  /\ images' = (id :> composeImage(selection)) @@ images
           /\ metaFiles' = (id :> meta) @@ metaFiles
           /\ allMetadata' = Append(allMetadata, meta)
           /\ imagePaths' = Append(imagePaths, imagePath(id))
    /\ edition' = edition + 1
    /\ attempts' = 0
    /\ drawn' = <<>>
    /\ selection' = Undefined
    /\ dna' = Undefined
    /\ pc' = afterSlot(edition + 1)
    /\ UNCHANGED <<configVars, dnaVars, parseVars, pickVars,
                   failures, indices, aggregate, dnaLog>>

(* lines 293-309, and the loop header of the next slot *)
Accept ==
    /\ pc = "after"
    /\ ~exhausted(attempts)
    /\ dnaSet' = dnaSet \cup {dna}
    /\ images' = (edition :> composeImage(selection)) @@ images
    /\ LET meta == metadataForToken(edition, selection, imageUri(edition))
       IN  /\ metaFiles' = (edition :> meta) @@ metaFiles
           /\ allMetadata' = Append(allMetadata, meta)
    /\ imagePaths' = Append(imagePaths, imagePath(edition))
    /\ edition' = edition + 1
    /\ attempts' = 0
    /\ drawn' = <<>>
    /\ selection' = Undefined
    /\ dna' = Undefined
    /\ pc' = afterSlot(edition + 1)
    /\ UNCHANGED <<configVars, dnaVars, parseVars, pickVars,
                   failures, indices, aggregate, dnaLog>>

(* lines 313-323 *)
ShuffleMetadata ==
    /\ pc = "shuffle"
    /\ \E js \in ShuffleDraws(Len(allMetadata)) :
        LET shuffled == shuffle([i \in 1..Len(allMetadata) |-> i], js)
        IN  /\ indices' = shuffled
            /\ metaFiles' = rewrittenMetadata(allMetadata, shuffled)
    /\ pc' = "aggregate"
    /\ UNCHANGED <<configVars, dnaVars, parseVars, pickVars,
                   edition, attempts, drawn, selection, dna,
                   dnaSet, failures, allMetadata, imagePaths, images, aggregate,
                   dnaLog>>

(* lines 325-338 *)
WriteAggregates ==
    /\ pc = "aggregate"
    /\ aggregate' = allMetadata
    /\ dnaLog' = dnaSet
    /\ pc' = "done"
    /\ UNCHANGED <<configVars, dnaVars, parseVars, pickVars,
                   edition, attempts, drawn, selection, dna,
                   dnaSet, failures, allMetadata, imagePaths, images, metaFiles,
                   indices>>

Next == Attempt \/ Fail \/ Accept \/ ShuffleMetadata \/ WriteAggregates

Spec == Init /\ [][Next]_vars

(* main runs to completion: the process is never suspended for good, so a *)
(* step that is possible is eventually taken                              *)
SpecLive == Init /\ [][Next]_vars /\ WF_vars(Next)

(* The end-to-end scenario: Background (weights 1 and 9) and Base (one     *)
(* element), both mandatory, no rules, edition of 5, ceiling 10000         *)
InitE2E ==
    /\ layers = Catalog2
    /\ incompatible = NoRules
    /\ requires = NoRules
    /\ mandatoryLayers = DefaultMandatory
    /\ editionSize = ScenarioEditionSize
    /\ uniqueDnaTorrance = DefaultTorrance
    /\ shuffleMetadata = TRUE
    /\ InitRun

SpecE2E == InitE2E /\ [][Next]_vars

-----------------------------------------------------------------------------
(* dnaFromSelection on its own: two arrays holding the same picks, one     *)
(* per layer, in any two insertion orders                                  *)

(* lines 119-120: the array the caller passed, after the call; the sort    *)
(* works on the copy made by slice()                                       *)
dnaFromSelectionArg(sel) == sel

Orderings(n) == {f \in [1..n -> 1..n] : \A i, j \in 1..n : f[i] = f[j] => i = j}

(* the selections over a non-empty set of layers of Catalog1, in any order *)
Arrangements ==
    UNION {
        {[p \in 1..Len(picked) |-> picked[f[p]]] : f \in Orderings(Len(picked))} :
            picked \in UNION {
                { [i \in 1..Len(idx) |-> full[idx[i]]] :
                    idx \in {q \in UNION {[1..n -> 1..Len(full)] : n \in 1..Len(full)} :
                                \A i, j \in 1..Len(q) : i < j => q[i] < q[j]} } :
                full \in PickOutcomes[Catalog1] } }

Pairs(sel) == {<<sel[i].layer, sel[i].name>> : i \in 1..Len(sel)}

InitDna ==
    /\ layers = Catalog1
    /\ incompatible = NoRules
    /\ requires = NoRules
    /\ mandatoryLayers = <<>>
    /\ editionSize = 1
    /\ uniqueDnaTorrance = 1
    /\ shuffleMetadata = FALSE
    /\ edition = 1
    /\ attempts = 0
    /\ drawn = <<>>
    /\ selection = Undefined
    /\ dna = Undefined
    /\ dnaSet = {}
    /\ failures = 0
    /\ allMetadata = <<>>
    /\ imagePaths = <<>>
    /\ images = NoFiles
    /\ metaFiles = NoFiles
    /\ indices = <<>>
    /\ aggregate = <<>>
    /\ dnaLog = {}
    /\ pc = "dna"
    /\ selA \in Arrangements
    /\ selB \in {b \in Arrangements : Len(b) = Len(selA) /\ Pairs(b) = Pairs(selA)}
    /\ dnaA = Undefined
    /\ dnaB = Undefined
    /\ fileName = <<>> /\ parsed = Undefined
    /\ pickElements = <<>> /\ pickR = 0 /\ pickResult = Undefined

CallDnaA ==
    /\ pc = "dna"
    /\ dnaA = Undefined
    /\ dnaA' = dnaFromSelection(selA)
    /\ selA' = dnaFromSelectionArg(selA)
    /\ UNCHANGED <<configVars, edition, attempts, drawn, selection, dna, dnaSet,
                   failures, allMetadata, imagePaths, images, metaFiles, indices,
                   aggregate, dnaLog, pc, selB, dnaB, parseVars, pickVars>>

CallDnaB ==
    /\ pc = "dna"
    /\ dnaB = Undefined
    /\ dnaB' = dnaFromSelection(selB)
    /\ selB' = dnaFromSelectionArg(selB)
    /\ UNCHANGED <<configVars, edition, attempts, drawn, selection, dna, dnaSet,
                   failures, allMetadata, imagePaths, images, metaFiles, indices,
                   aggregate, dnaLog, pc, selA, dnaA, parseVars, pickVars>>

NextDna == CallDnaA \/ CallDnaB

SpecDna == InitDna /\ [][NextDna]_vars

-----------------------------------------------------------------------------
(* Properties *)

(* the (layer, value) pairs of an accepted token *)
AttributePairs(meta) ==
    {<<meta.attributes[i].trait_type, meta.attributes[i].value>> :
        i \in 1..Len(meta.attributes)}

Tokens == 1..Len(allMetadata)

Compatible(pairs) ==
    \A k \in pairs :
        k \in DOMAIN incompatible =>
            \A i \in 1..Len(incompatible[k]) : incompatible[k][i] \notin pairs

(* the last draw is a success of the search: compatible and not seen yet *)
NovelCompatible ==
    /\ selection # Undefined
    /\ Compatible(Pairs(selection))
    /\ dnaFromSelection(selection) \notin dnaSet

(* C1: no accepted token holds both a trait id k and a trait id listed in  *)
(* incompatible[k].                                                        *)
C1_NoIncompatibleToken ==
    \A t \in Tokens : Compatible(AttributePairs(allMetadata[t]))

(* C2: a search whose last draw is compatible and has a novel fingerprint  *)
(* ends with the token emitted; a slot is counted as failed only when the  *)
(* draw it stopped on was not such a success.                              *)
C2_SuccessIsAccepted ==
    [][(pc = "after" /\ NovelCompatible)
          => /\ Len(allMetadata') = Len(allMetadata) + 1
             /\ failures' = failures]_vars

(* C3: the fingerprint set has as many members as there are accepted       *)
(* tokens, and no two accepted tokens hold the same set of (layer, value)  *)
(* pairs.                                                                  *)
C3_SetSizeAndUniqueness ==
    /\ Cardinality(dnaSet) = Len(allMetadata)
    /\ \A t, u \in Tokens :
          t # u => AttributePairs(allMetadata[t]) # AttributePairs(allMetadata[u])

C3_Witness ==
    /\ Len(allMetadata) >= 2
    /\ failures >= 1

(* C6: a slot that reaches the ceiling without a success is skipped: no    *)
(* image, no metadata record, no fingerprint, the shortfall counter goes   *)
(* up by exactly 1, and the loop moves on to the next slot for good.       *)
C6_FailedSlotSkipped ==
    [][/\ (pc = "after" /\ attempts >= uniqueDnaTorrance /\ ~NovelCompatible)
            => /\ failures' = failures + 1
               /\ dnaSet' = dnaSet
               /\ allMetadata' = allMetadata
               /\ imagePaths' = imagePaths
               /\ images' = images
               /\ metaFiles' = metaFiles
               /\ edition' = edition + 1
       /\ edition' >= edition
       /\ failures' \in {failures, failures + 1}]_vars

C6_Witness ==
    /\ pc = "after"
    /\ uniqueDnaTorrance >= 2
    /\ attempts >= uniqueDnaTorrance
    /\ ~NovelCompatible
    /\ failures >= 1
    /\ Len(allMetadata) >= 1

(* the attributes of a token whose trait category is the layer *)
AttributesOf(meta, layer) ==
    {i \in 1..Len(meta.attributes) : meta.attributes[i].trait_type = layer}

OneBackgroundOneBase ==
    \A t \in Tokens :
        /\ Cardinality(AttributesOf(allMetadata[t], "Background")) = 1
        /\ Cardinality(AttributesOf(allMetadata[t], "Base")) = 1
        /\ Len(allMetadata[t].attributes) = 2

(* C4, as stated: the end-to-end scenario ends with exactly 5 unique       *)
(* tokens, one Background and one Base attribute each, and a fingerprint   *)
(* set of size 5.                                                          *)
C4_FiveUniqueTokens ==
    pc = "done" =>
        /\ Len(allMetadata) = ScenarioEditionSize
        /\ OneBackgroundOneBase
        /\ Cardinality(dnaSet) = ScenarioEditionSize

(* C4, amended: the catalog of the scenario has only 2 distinct            *)
(* selections, so the run ends with 1 or 2 unique tokens, one Background   *)
(* and one Base attribute each, a fingerprint set of the same size, and    *)
(* every other slot of the 5 counted in the shortfall counter.             *)
C4_AtMostTwoUniqueTokens ==
    /\ OneBackgroundOneBase
    /\ \A t, u \in Tokens :
          t # u => AttributePairs(allMetadata[t]) # AttributePairs(allMetadata[u])
    /\ pc = "done" =>
        /\ Len(allMetadata) \in 1..2
        /\ Cardinality(dnaSet) = Len(allMetadata)
        /\ failures = ScenarioEditionSize - Len(allMetadata)

C4_Witness ==
    /\ pc = "done"
    /\ Len(allMetadata) = 2
    /\ failures = ScenarioEditionSize - 2

LayerIds == {layers[i].id : i \in 1..Len(layers)}

(* the requirement targets of the drawn traits, as <<p, i, target>>: the   *)
(* i-th target in the rule of the p-th drawn trait                         *)
DrawnTargets ==
    UNION {{<<p, i, requires[drawn[p].id][i]>> : i \in 1..Len(requires[drawn[p].id])} :
              p \in {q \in 1..Len(drawn) : drawn[q].id \in DOMAIN requires}}

(* a target for the same layer with another value comes later in the       *)
(* processing order of enforceRequirements                                 *)
Overridden(e) ==
    \E f \in DrawnTargets :
        /\ f[1] > e[1] \/ (f[1] = e[1] /\ f[2] > e[2])
        /\ f[3][1] = e[3][1]
        /\ f[3][2] # e[3][2]

(* C5, as stated: for every rule "A:x" -> [..., "B:y", ...] of the         *)
(* requires table, every accepted token that holds A:x holds B:y.          *)
C5_RequirementAlwaysHolds ==
    \A t \in Tokens : \A k \in DOMAIN requires :
        k \in AttributePairs(allMetadata[t]) =>
            \A i \in 1..Len(requires[k]) :
                requires[k][i] \in AttributePairs(allMetadata[t])

(* C5, amended: for every rule "A:x" -> [..., "B:y", ...], every selection *)
(* whose per-layer draw holds A:x holds B:y, whatever was drawn for layer  *)
(* B, provided B is a layer of the catalog and no requirement processed    *)
(* later (a later target of the same rule, or a target of a trait drawn    *)
(* for a later layer) names layer B with another value; and the token      *)
(* emitted for a slot holds exactly the pairs of the selection accepted.   *)
C5_LastRequirementHolds ==
    /\ [](selection # Undefined =>
            \A e \in DrawnTargets :
                (e[3][1] \in LayerIds /\ ~Overridden(e)) => e[3] \in Pairs(selection))
    /\ [][Len(allMetadata') > Len(allMetadata) =>
            AttributePairs(allMetadata'[Len(allMetadata')]) = Pairs(selection)]_vars

C5_Witness ==
    /\ requires = Requires1
    /\ pc = "after"
    /\ ~exhausted(attempts)
    /\ <<"Base", "Alien">> \in Pairs(drawn)
    /\ <<"Mouth", "Smile">> \in Pairs(drawn)
    /\ <<"Base", "Alien">> \in Pairs(selection)
    /\ <<"Mouth", "Fangs">> \in Pairs(selection)

MandatoryInCatalog == Range(mandatoryLayers) \cap LayerIds

CatalogLayer(id) == layers[CHOOSE i \in 1..Len(layers) : layers[i].id = id]

(* the first element, in layer order, among those of the highest weight *)
IsFirstHighest(elements, e) ==
    \E i \in 1..Len(elements) :
        /\ elements[i] = e
        /\ \A j \in 1..Len(elements) : elements[j].weight <= elements[i].weight
        /\ \A j \in 1..(i - 1) : elements[j].weight < elements[i].weight

(* the picks of lines 180-191 for the drawn picks without those of layer m *)
InjectedFor(m) ==
    LET without == SelectSeq(drawn, LAMBDA p : p.layer # m)
        st == enforceMandatory(layers, mandatoryLayers,
                               [picked |-> without, order |-> Len(layers)])
    IN  SelectSeq(st.picked, LAMBDA p : p.layer = m)

(* C7, as stated: every accepted token has an attribute of every layer     *)
(* named in mandatoryLayers.                                               *)
C7_EveryMandatoryLayerPresent ==
    \A t \in Tokens : \A m \in Range(mandatoryLayers) :
        AttributesOf(allMetadata[t], m) # {}

(* C7, amended: every accepted token has an attribute of every layer named *)
(* in mandatoryLayers that is a layer of the catalog; the per-layer draw   *)
(* yields a pick for every layer of the catalog; and for picks that lack   *)
(* such a mandatory layer, the mandatory step adds exactly one pick of it, *)
(* the highest-weight element, the first in layer order among equals.      *)
C7_MandatoryCatalogLayerPresent ==
    /\ \A t \in Tokens : \A m \in MandatoryInCatalog :
          AttributesOf(allMetadata[t], m) # {}
    /\ drawn # <<>> =>
          /\ \A id \in LayerIds : \E p \in 1..Len(drawn) : drawn[p].layer = id
          /\ \A m \in MandatoryInCatalog :
                /\ Len(InjectedFor(m)) = 1
                /\ \E e \in Range(CatalogLayer(m).elements) :
                      /\ IsFirstHighest(CatalogLayer(m).elements, e)
                      /\ InjectedFor(m)[1] = WithOrder(e, Len(layers))

C7_Witness ==
    /\ layers = Catalog2
    /\ mandatoryLayers = DefaultMandatory
    /\ Len(allMetadata) >= 1
    /\ drawn # <<>>
    /\ InjectedFor("Background")[1].name = "Red"

(* C8: with shuffle enabled, the rewritten per-token records are the       *)
(* records of the accepted tokens under a permutation of 1..k: attributes  *)
(* and description are carried over, name, edition number and image URI    *)
(* are those of the new id, and the shuffle leaves every image file alone. *)
C8_ShuffleIsPermutation ==
    /\ []((shuffleMetadata /\ pc \in {"aggregate", "done"}) =>
            /\ DOMAIN metaFiles = Tokens
            /\ \E perm \in Orderings(Len(allMetadata)) :
                  \A newId \in Tokens :
                      /\ metaFiles[newId].attributes = allMetadata[perm[newId]].attributes
                      /\ metaFiles[newId].description = allMetadata[perm[newId]].description
                      /\ metaFiles[newId].name = tokenName(newId)
                      /\ metaFiles[newId].edition = newId
                      /\ metaFiles[newId].image = imageUri(newId))
    /\ [][pc = "shuffle" => (images' = images /\ imagePaths' = imagePaths)]_vars

C8_Witness ==
    /\ shuffleMetadata
    /\ pc = "done"
    /\ Len(allMetadata) = 3
    /\ metaFiles[1].attributes = allMetadata[3].attributes
    /\ metaFiles[2].attributes = allMetadata[1].attributes

(* C9: two selections that hold the same (layer, value) pairs, one per     *)
(* layer, in any two insertion orders get the same fingerprint, and        *)
(* dnaFromSelection leaves the array it was given as it was.               *)
C9_FingerprintOrderIndependent ==
    /\ []((dnaA # Undefined /\ dnaB # Undefined) => dnaA = dnaB)
    /\ [][selA' = selA /\ selB' = selB]_vars

C9_Witness ==
    /\ dnaA # Undefined
    /\ dnaB # Undefined
    /\ Len(selA) = 3
    /\ selA[1] = selB[3]
    /\ selA[3].layer = "Base"
    /\ selA[1].layer = "Mouth"

(* is "layer:value" an element of the catalog *)
TargetInCatalog(target) ==
    \E i \in 1..Len(layers) :
        /\ layers[i].id = target[1]
        /\ \E j \in 1..Len(layers[i].elements) : layers[i].elements[j].name = target[2]

(* the requires table without the targets that are not in the catalog *)
RequiresInCatalog ==
    [k \in DOMAIN requires |-> SelectSeq(requires[k], TargetInCatalog)]

(* C10: a requirement target whose layer or value is not in the catalog    *)
(* adds no trait and changes no pick: the selection returned is the one    *)
(* returned without such targets in the table.                             *)
C10_MissingTargetIgnored ==
    selection # Undefined =>
        selection = pickTraitsForLayersIn(layers, mandatoryLayers, RequiresInCatalog, drawn)

-----------------------------------------------------------------------------
(* parseWeight on its own: the file names of up to MaxNameLen characters   *)

NameChars == {"a", rarityDelimiter, "0", "1", "2", "-"}

FileNames ==
    {Append(base, ".png") : base \in UNION {[1..n -> NameChars] : n \in 1..MaxNameLen}}

(* main and the other functions at rest, at position p *)
Idle(p) ==
    /\ layers = Catalog1
    /\ incompatible = NoRules
    /\ requires = NoRules
    /\ mandatoryLayers = <<>>
    /\ editionSize = 1
    /\ uniqueDnaTorrance = 1
    /\ shuffleMetadata = FALSE
    /\ edition = 1
    /\ attempts = 0
    /\ drawn = <<>>
    /\ selection = Undefined
    /\ dna = Undefined
    /\ dnaSet = {}
    /\ failures = 0
    /\ allMetadata = <<>>
    /\ imagePaths = <<>>
    /\ images = NoFiles
    /\ metaFiles = NoFiles
    /\ indices = <<>>
    /\ aggregate = <<>>
    /\ dnaLog = {}
    /\ pc = p

InitParse ==
    /\ Idle("parse")
    /\ selA = <<>> /\ selB = <<>> /\ dnaA = Undefined /\ dnaB = Undefined
    /\ pickElements = <<>> /\ pickR = 0 /\ pickResult = Undefined
    /\ fileName \in FileNames
    /\ parsed = Undefined

(* readLayers, lines 54-55: one file of a layer folder *)
ParseFile ==
    /\ pc = "parse"
    /\ parsed' = parseWeight(fileName)
    /\ pc' = "parsed"
    /\ UNCHANGED <<configVars, dnaVars, pickVars, fileName, edition, attempts,
                   drawn, selection, dna, dnaSet, failures, allMetadata,
                   imagePaths, images, metaFiles, indices, aggregate, dnaLog>>

NextParse == ParseFile

SpecParse == InitParse /\ [][NextParse]_vars

(* the text after the last delimiter of the file name *)
WeightText ==
    LET base == SubSeq(fileName, 1, Len(fileName) - 1)
        last == CHOOSE i \in 1..Len(base) :
                    base[i] = rarityDelimiter
                    /\ \A j \in (i + 1)..Len(base) : base[j] # rarityDelimiter
    IN  SubSeq(base, last + 1, Len(base))

HasDelimiter == \E i \in 1..(Len(fileName) - 1) : fileName[i] = rarityDelimiter

(* the text is a positive integer W written in digits *)
IsPositiveInteger(text, W) ==
    /\ W >= 1
    /\ AllDigits(text)
    /\ DecimalValue(text) = W

(* C11: the weight parsed from a file name is W when the text after the    *)
(* last delimiter is a positive integer W, and 1 when that text is         *)
(* non-numeric, empty, zero or negative or when there is no delimiter; so  *)
(* every weight is a positive integer.                                     *)
C11_WeightIsPositiveInteger ==
    pc = "parsed" =>
        /\ parsed.weight >= 1
        /\ ~HasDelimiter => parsed.weight = 1
        /\ HasDelimiter =>
              IF \E W \in 1..(10 ^ MaxNameLen) : IsPositiveInteger(WeightText, W)
              THEN IsPositiveInteger(WeightText, parsed.weight)
              ELSE parsed.weight = 1

(* the slot numbers of the accepted tokens *)
AcceptedSlots == {allMetadata[t].edition : t \in Tokens}

(* C12: the loop handles the slots 1..editionSize in order, each once: the *)
(* image file and the first metadata record of a token carry the number of *)
(* the slot that produced it, slot numbers only grow so a failed slot's    *)
(* number is never taken by a later token, accepted tokens plus the        *)
(* shortfall counter make up the slots handled (editionSize at the end),   *)
(* and a failure hands the next slot a fresh search and the same           *)
(* fingerprint set and configuration.                                      *)
C12_SlotsInOrderOnce ==
    /\ [](/\ edition \in 1..(editionSize + 1)
          /\ Len(allMetadata) + failures = edition - 1
          /\ pc \in {"shuffle", "aggregate", "done"} => edition = editionSize + 1
          /\ \A t \in Tokens :
                /\ allMetadata[t].edition \in 1..(edition - 1)
                /\ allMetadata[t].name = tokenName(allMetadata[t].edition)
                /\ allMetadata[t].image = imageUri(allMetadata[t].edition)
                /\ imagePaths[t] = imagePath(allMetadata[t].edition)
                /\ \A u \in Tokens : t < u => allMetadata[t].edition < allMetadata[u].edition
          /\ DOMAIN images = AcceptedSlots
          /\ pc \in {"loop", "after", "shuffle"} =>
                /\ DOMAIN metaFiles = AcceptedSlots
                /\ \A t \in Tokens : metaFiles[allMetadata[t].edition] = allMetadata[t])
    /\ [][/\ edition' \in {edition, edition + 1}
          /\ \A e \in DOMAIN images : e \in DOMAIN images' /\ images'[e] = images[e]
          /\ Len(allMetadata') > Len(allMetadata) =>
                allMetadata'[Len(allMetadata')].edition = edition
          /\ failures' # failures =>
                /\ failures' = failures + 1
                /\ edition' = edition + 1
                /\ attempts' = 0
                /\ dna' = Undefined
                /\ dnaSet' = dnaSet
                /\ configVars' = configVars]_vars

C12_Witness ==
    /\ pc = "done"
    /\ failures = 1
    /\ Len(allMetadata) = 2
    /\ allMetadata[1].edition = 1
    /\ allMetadata[2].edition = 3
    /\ uniqueDnaTorrance >= 2

(* C13: each slot's search makes between 1 and uniqueDnaTorrance attempts, *)
(* every iteration of the search loop adds exactly 1 to the attempt        *)
(* counter whatever the draw was (incompatible, duplicate or new), and      *)
(* every run ends having handled all editionSize slots.                     *)
C13_BoundedAttemptsAndTermination ==
    /\ [](/\ attempts \in 0..uniqueDnaTorrance
          /\ pc = "after" => attempts \in 1..uniqueDnaTorrance
          /\ pc = "loop" => attempts < uniqueDnaTorrance)
    /\ [][/\ pc = "loop" => attempts' = attempts + 1 /\ edition' = edition
          /\ edition' # edition =>
                /\ attempts \in 1..uniqueDnaTorrance
                /\ attempts' = 0
                /\ edition' = edition + 1]_vars
    /\ <>[](pc = "done" /\ edition = editionSize + 1)

C13_Witness ==
    /\ pc = "after"
    /\ attempts = uniqueDnaTorrance
    /\ attempts >= 3
    /\ edition = editionSize
    /\ edition >= 2
    /\ violatesIncompatibilities(selection)

(* the picks after the mandatory pass of the current attempt, the overrides *)
(* collected for them, and the picks after the first k overrides            *)
MandatoryDone ==
    enforceMandatory(layers, mandatoryLayers, [picked |-> drawn, order |-> Len(layers)])

MustAdd == enforceRequirements(MandatoryDone.picked)

AfterOverrides(k) == applyRequirements(layers, MandatoryDone, SubSeq(MustAdd, 1, k)).picked

HasLayer(picked, layerName) == \E i \in 1..Len(picked) : picked[i].layer = layerName

(* only the first entry of the layer changed, and only in value and id *)
InPlaceOnly(before, after, target) ==
    /\ Len(after) = Len(before)
    /\ \E idx \in 1..Len(before) :
        /\ before[idx].layer = target[1]
        /\ \A j \in 1..(idx - 1) : before[j].layer # target[1]
        /\ after[idx] = [before[idx] EXCEPT !.name = target[2],
                                            !.id = traitKey(target[1], target[2])]
        /\ after[idx]._order = before[idx]._order
        /\ \A j \in 1..Len(before) : j # idx => after[j] = before[j]

(* exactly one entry was added, last in render order *)
AppendsOne(before, after, target) ==
    /\ Len(after) = Len(before) + 1
    /\ SubSeq(after, 1, Len(before)) = before
    /\ after[Len(after)].layer = target[1]
    /\ after[Len(after)].name = target[2]
    /\ \A i \in 1..Len(before) : after[Len(after)]._order > before[i]._order

(* the render order of the returned selection *)
OrderKept ==
    /\ selection = AfterOverrides(Len(MustAdd))
    /\ \A i, j \in 1..Len(selection) :
            i # j => selection[i]._order # selection[j]._order
    /\ \A i \in 1..Len(layers) :
        /\ selection[i].layer = layers[i].id
        /\ selection[i]._order = i - 1

(* the targets named anywhere in the requires table *)
AllTargets == UNION {Range(requires[k]) : k \in DOMAIN requires}

(* the override for target applied to the drawn picks without their entry   *)
(* of layer number d                                                        *)
OverrideWithout(d, target) ==
    applyRequirement(layers,
        [picked |-> SelectSeq(drawn, LAMBDA p : p.layer # layers[d].id),
         order |-> Len(layers)],
        target[1], target[2]).picked

(* C14, as stated: an override on a layer already present changes only the *)
(* value and id of that entry; an override on an absent layer appends      *)
(* exactly one entry, last in render order; the _order values of the       *)
(* returned selection are pairwise distinct and the drawn entries keep the *)
(* index of their layer.                                                   *)
C14_AbsentLayerAlwaysAppends ==
    selection # Undefined =>
        /\ OrderKept
        /\ \A k \in 1..Len(MustAdd) :
            IF HasLayer(AfterOverrides(k - 1), MustAdd[k][1])
            THEN InPlaceOnly(AfterOverrides(k - 1), AfterOverrides(k), MustAdd[k])
            ELSE AppendsOne(AfterOverrides(k - 1), AfterOverrides(k), MustAdd[k])

(* C14, amended: as stated, except that an override on an absent layer      *)
(* appends its one entry only when the catalog has that layer and value,   *)
(* and otherwise leaves the selection as it was. After the per-layer draw  *)
(* every catalog layer is present, so in a run the absent layers are the    *)
(* ones the catalog does not have; the appending branch is checked on the   *)
(* drawn picks with one layer taken out.                                    *)
C14_OverridesKeepRenderOrder ==
    selection # Undefined =>
        /\ OrderKept
        /\ \A k \in 1..Len(MustAdd) :
            IF HasLayer(AfterOverrides(k - 1), MustAdd[k][1])
            THEN InPlaceOnly(AfterOverrides(k - 1), AfterOverrides(k), MustAdd[k])
            ELSE IF TargetInCatalog(MustAdd[k])
            THEN AppendsOne(AfterOverrides(k - 1), AfterOverrides(k), MustAdd[k])
            ELSE AfterOverrides(k) = AfterOverrides(k - 1)
        /\ \A d \in 1..Len(layers) : \A target \in AllTargets :
            target[1] = layers[d].id =>
                LET before == SelectSeq(drawn, LAMBDA p : p.layer # layers[d].id)
                IN  IF TargetInCatalog(target)
                    THEN AppendsOne(before, OverrideWithout(d, target), target)
                    ELSE OverrideWithout(d, target) = before

C14_Witness ==
    /\ pc = "after"
    /\ requires = Requires3
    /\ MustAdd = << <<"Head", "Crown">> >>
    /\ selection = drawn
    /\ \E d \in dnaSet : d # Undefined /\ <<"Mouth", "Grin">> \in Range(d)

-----------------------------------------------------------------------------
(* weightedPick on its own: the layers of up to MaxLayerSize elements with  *)
(* weights up to MaxWeight, and every draw of the grid below their total    *)

ValueNames == <<"v1", "v2", "v3", "v4", "v5">>

PickLayers ==
    UNION {{[i \in 1..n |-> Element("Base", ValueNames[i], w[i])] :
                w \in [1..n -> 1..MaxWeight]} : n \in 1..MaxLayerSize}

InitPick ==
    /\ Idle("pick")
    /\ selA = <<>> /\ selB = <<>> /\ dnaA = Undefined /\ dnaB = Undefined
    /\ fileName = <<>> /\ parsed = Undefined
    /\ pickElements \in PickLayers
    /\ pickR \in 0..(Grain * SumWeights(pickElements) - 1)
    /\ pickResult = Undefined

(* line 175: the pick of one layer *)
CallWeightedPick ==
    /\ pc = "pick"
    /\ pickResult' = weightedPick(pickElements, pickR)
    /\ pc' = "picked"
    /\ UNCHANGED <<configVars, dnaVars, parseVars, pickElements, pickR, edition,
                   attempts, drawn, selection, dna, dnaSet, failures, allMetadata,
                   imagePaths, images, metaFiles, indices, aggregate, dnaLog>>

NextPick == CallWeightedPick

SpecPick == InitPick /\ [][NextPick]_vars

(* the weights of the first i elements, on the grid of the draws *)
Cumulative(i) == Grain * SumWeights(SubSeq(pickElements, 1, i))

(* C15: for positive weights and a draw below the total, weightedPick      *)
(* returns the first element in layer order whose cumulative weight        *)
(* reaches the draw (some element always does, so the last-element         *)
(* fallback is not needed), the result is an element of the layer, and     *)
(* every element of the layer is returned for some draw.                   *)
C15_FirstElementReachingDraw ==
    pc = "picked" =>
        /\ \E i \in 1..Len(pickElements) :
            /\ pickResult = pickElements[i]
            /\ pickR <= Cumulative(i)
            /\ \A j \in 1..(i - 1) : pickR > Cumulative(j)
        /\ pickResult \in Range(pickElements)
        /\ \A i \in 1..Len(pickElements) :
            \E r \in 0..(Cumulative(Len(pickElements)) - 1) :
                weightedPick(pickElements, r) = pickElements[i]

C15_Witness ==
    /\ pc = "picked"
    /\ Len(pickElements) = 3
    /\ pickR = Cumulative(2)
    /\ pickResult = pickElements[2]
    /\ pickElements[3].weight = 1

-----------------------------------------------------------------------------
(* the requirement e of the drawn traits is processed after every other     *)
(* one that names its layer                                                 *)
LastForLayer(e) ==
    \A f \in DrawnTargets :
        f[3][1] = e[3][1] => f[1] < e[1] \/ (f[1] = e[1] /\ f[2] <= e[2])

(* C16: the overrides collected by enforceRequirements hold at most one    *)
(* entry per target layer, one for every layer some chosen trait has a     *)
(* requirement in, and its value is that of the last requirement processed *)
(* for the layer, traits taken in insertion order and the targets of a     *)
(* trait in list order; the selection passed in and the rule tables are    *)
(* left as they were.                                                      *)
C16_LastRequirementPerLayer ==
    /\ [](selection # Undefined =>
            /\ \A i, j \in 1..Len(MustAdd) : i # j => MustAdd[i][1] # MustAdd[j][1]
            /\ Range(MustAdd) = {e[3] : e \in {f \in DrawnTargets : LastForLayer(f)}}
            /\ MandatoryDone.picked = drawn)
    /\ [][requires' = requires /\ incompatible' = incompatible]_vars

C16_Witness ==
    /\ pc = "after"
    /\ requires = Requires2
    /\ Cardinality(DrawnTargets) = 2
    /\ MustAdd = << <<"Mouth", "Smile">> >>

-----------------------------------------------------------------------------
(* C17: at the end of a run every metadata file names, in its image URI,   *)
(* an image file that was written, and that image was composed from the    *)
(* selection the attribute list of the file was made from (the image and   *)
(* the first record of a token are made from one selection, under one      *)
(* slot number).                                                           *)
C17_MetadataNamesItsOwnImage ==
    pc = "done" =>
        \A id \in DOMAIN metaFiles :
            \E t \in Tokens :
                /\ allMetadata[t].edition \in DOMAIN images
                /\ metaFiles[id].image = imageUri(allMetadata[t].edition)
                /\ metaFiles[id].attributes = allMetadata[t].attributes

-----------------------------------------------------------------------------
(* C18: every entry of the selection returned by pickTraitsForLayers is an *)
(* element of its layer in the catalog, in layer, name, id, weight and     *)
(* asset path, also when a requirement override rewrote it; so the assets  *)
(* composited into a token's image are those of the trait values listed in *)
(* its attributes.                                                         *)
C18_SelectionEntriesInCatalog ==
    /\ selection # Undefined =>
        \A i \in 1..Len(selection) :
            \E li \in 1..Len(layers) :
                /\ layers[li].id = selection[i].layer
                /\ \E j \in 1..Len(layers[li].elements) :
                    selection[i] = WithOrder(layers[li].elements[j], selection[i]._order)
    /\ \A t \in Tokens :
        LET image == images[allMetadata[t].edition]
            attributes == allMetadata[t].attributes
        IN  /\ Len(image) = Len(attributes)
            /\ \A i \in 1..Len(image) :
                /\ image[i][1] = attributes[i].trait_type
                /\ image[i][2] = attributes[i].value

-----------------------------------------------------------------------------
(* C19: the value added to the fingerprint set when a token is accepted is *)
(* the fingerprint of the selection of the accepted attempt, never the     *)
(* undefined value and never a fingerprint computed for an earlier         *)
(* attempt; the DNA log holds only such values.                            *)
C19_OnlyAcceptedFingerprintsAdded ==
    /\ pc = "after" /\ ~exhausted(attempts) => dna = dnaFromSelection(selection)
    /\ Undefined \notin dnaSet
    /\ Undefined \notin dnaLog

-----------------------------------------------------------------------------
(* C20: at the end of a run the aggregate metadata collection holds        *)
(* exactly the records of the metadata files: as many records as files,    *)
(* and for every file the record with its edition number, with the same    *)
(* name, image URI and attributes, with shuffle on or off.                 *)
C20_AggregateEqualsFiles ==
    pc = "done" =>
        /\ Len(aggregate) = Cardinality(DOMAIN metaFiles)
        /\ \A id \in DOMAIN metaFiles :
            \E i \in 1..Len(aggregate) :
                /\ aggregate[i].edition = id
                /\ aggregate[i] = metaFiles[id]

====
